---- MODULE Spec2Model ----
(***************************************************************************)
(* Model of scripts/compute_maplify_score.py: the five normalisation       *)
(* functions, the weighted combiner and main(), which reads a CSV table,   *)
(* enriches every row with five sub-scores and the composite, and writes   *)
(* the enriched rows as JSON and as CSV.                                   *)
(*                                                                         *)
(* Numbers.  Python floats are modelled as exact rationals <<n, d>> in     *)
(* lowest terms with d > 0.  The model therefore agrees with the program   *)
(* wherever the binary rounding error of a double (about 1e-14 here) does  *)
(* not decide the outcome, that is everywhere except on exact rounding     *)
(* ties.  Text that float() parses to nan or to an infinity is outside     *)
(* the input alphabet of the model.                                        *)
(*                                                                         *)
(* Values.  Every value held by a row is a record [k, v]:                  *)
(*   k = "None"     the Python None (a cell missing from a short row)      *)
(*   k = "empty"    the empty string                                       *)
(*   k = "text"     a non-empty string that float() rejects; v tags it     *)
(*   k = "numtext"  a non-empty string that float() accepts; v its value   *)
(*   k = "list"     the list of surplus cells of a long row; v its length  *)
(*   k = "float"    a Python float; v its value                            *)
(*   k = "int"      a Python int; v its value                              *)
(***************************************************************************)
EXTENDS Integers, Sequences, FiniteSets, TLC

-----------------------------------------------------------------------------
(* Bounds of the model *)

MaxRows == 2

MaxWideRows == 1

MaxRuns == 2

-----------------------------------------------------------------------------
(* Exact rational arithmetic standing for float arithmetic *)

Abs(x) == IF x < 0 THEN -x ELSE x

RECURSIVE Gcd(_, _)
Gcd(a, b) == IF b = 0 THEN a ELSE Gcd(b, a % b)

Q(n, d) ==
    LET g == Gcd(Abs(n), Abs(d))
        s == IF d < 0 THEN -1 ELSE 1
    IN  <<s * (n \div g), s * (d \div g)>>

QInt(n) == <<n, 1>>

QAdd(a, b) == Q(a[1] * b[2] + b[1] * a[2], a[2] * b[2])

QSub(a, b) == Q(a[1] * b[2] - b[1] * a[2], a[2] * b[2])

QMul(a, b) == Q(a[1] * b[1], a[2] * b[2])

QDiv(a, b) == Q(a[1] * b[2], a[2] * b[1])

QLt(a, b) == a[1] * b[2] < b[1] * a[2]

QLe(a, b) == a[1] * b[2] <= b[1] * a[2]

\* Python max(a, b): the first argument unless the second is greater.
PyMax(a, b) == IF QLt(a, b) THEN b ELSE a

\* Python min(a, b): the first argument unless the second is smaller.
PyMin(a, b) == IF QLt(b, a) THEN b ELSE a

\* Python round(x): nearest integer, ties to the even neighbour.
PyRound(q) ==
    LET f == q[1] \div q[2]
        r2 == 2 * (q[1] - f * q[2])
    IN  IF r2 < q[2] THEN f
        ELSE IF r2 > q[2] THEN f + 1
        ELSE IF f % 2 = 0 THEN f ELSE f + 1

\* Python round(x, 2): nearest multiple of 0.01, ties to even.
PyRound2(q) == Q(PyRound(QMul(q, QInt(100))), 100)

-----------------------------------------------------------------------------
(* Values *)

NoneV == [k |-> "None", v |-> QInt(0)]

EmptyV == [k |-> "empty", v |-> QInt(0)]

TextV(tag) == [k |-> "text", v |-> QInt(tag)]

\* The decimal text of n hundredths, e.g. NumV(5892) is "58.92".
NumV(n) == [k |-> "numtext", v |-> Q(n, 100)]

ListV(n) == [k |-> "list", v |-> QInt(n)]

FloatV(q) == [k |-> "float", v |-> q]

IntV(n) == [k |-> "int", v |-> QInt(n)]

\* Truthiness that looks at the number a text denotes: "0" counts as absent.
TruthyByValue(x) ==
    CASE x.k = "None" -> FALSE
      [] x.k = "empty" -> FALSE
      [] x.k \in {"float", "int", "numtext"} -> x.v # QInt(0)
      [] OTHER -> TRUE

\* Python truthiness, as used by the `or` of lines 63-73.
Truthy(x) ==
    CASE x.k = "None" -> FALSE
      [] x.k = "empty" -> FALSE
      [] x.k \in {"float", "int"} -> x.v # QInt(0)
      [] OTHER -> TRUE

PyOr(a, b) == IF Truthy(a) THEN a ELSE b

\* float(x) succeeds exactly on numbers and on numeric text.
Floatable(x) == x.k \in {"numtext", "float", "int"}

ToFloat(x) == FloatV(x.v)

-----------------------------------------------------------------------------
(* The scoring functions *)

clamp(x) == PyMax(QInt(0), PyMin(QInt(100), x))

compute_commute_score(commute_mins) ==
    LET score == QSub(QInt(100),
                      QMul(PyMax(QInt(0), QSub(commute_mins.v, QInt(10))), QInt(2)))
    IN  FloatV(clamp(score))

\* The flood score scaled over zones 0..4 instead of 0..3.
compute_flood_score_over_four(flood_zone) ==
    LET zone == IF Floatable(flood_zone) THEN flood_zone.v ELSE QInt(3)
        score == QMul(QDiv(QSub(QInt(3), zone), QInt(4)), QInt(100))
    IN  FloatV(clamp(score))

compute_flood_score(flood_zone) ==
    LET zone == IF Floatable(flood_zone) THEN flood_zone.v ELSE QInt(3)
        score == QMul(QDiv(QSub(QInt(3), zone), QInt(3)), QInt(100))
    IN  FloatV(clamp(score))

compute_pollution_score(aod) ==
    LET aod_min == Q(2, 100)
        aod_max == Q(6, 10)
        a == IF Floatable(aod) THEN aod.v ELSE aod_max
        score == QMul(QSub(QInt(1), QDiv(QSub(a, aod_min), QSub(aod_max, aod_min))),
                      QInt(100))
    IN  FloatV(clamp(score))

compute_density_score(density) ==
    LET max_density == QInt(40000)
        d == IF Floatable(density) THEN density.v ELSE max_density
        score == QSub(QInt(100), QMul(QDiv(d, max_density), QInt(100)))
    IN  FloatV(clamp(score))

compute_green_score(ndvi) ==
    LET ndvi_min == QInt(0)
        ndvi_max == Q(6, 10)
        n == IF Floatable(ndvi) THEN ndvi.v ELSE ndvi_min
        score == QMul(QDiv(QSub(n, ndvi_min), QSub(ndvi_max, ndvi_min)), QInt(100))
    IN  FloatV(clamp(score))

compute_maplify_score(commute_score, flood_score, pollution_score, density_score, green_score) ==
    LET s == QAdd(QAdd(QAdd(QAdd(QMul(commute_score.v, Q(25, 100)),
                                 QMul(flood_score.v, Q(25, 100))),
                            QMul(pollution_score.v, Q(20, 100))),
                       QMul(density_score.v, Q(15, 100))),
                  QMul(green_score.v, Q(15, 100)))
    IN  IntV(PyRound(s))

-----------------------------------------------------------------------------
(* Field names *)

\* The five sub-score fields, in the order lines 69-73 compute them.
ScoreFields == <<"commute_score", "flood_score", "pollution_score", "density_score", "green_score">>

\* The raw field each sub-score is computed from, in the same order.
RawFields == <<"commute_mins", "flood_zone", "aod", "density_per_km2", "ndvi">>

\* The six fields lines 78-83 assign, in assignment order.
OutputFields == ScoreFields \o <<"maplify_score">>

\* The key csv.DictReader files surplus cells under (restkey=None).
RESTKEY == "<None>"

Range(s) == {s[i] : i \in 1..Len(s)}

-----------------------------------------------------------------------------
(* Rows: Python dicts, which keep their keys in insertion order *)

DictGet(row, key) == IF key \in DOMAIN row.val THEN row.val[key] ELSE NoneV

\* An assignment that always moves the key to the end.
DictSetMovesKey(row, key, x) ==
    [keys |-> Append(SelectSeq(row.keys, LAMBDA n : n # key), key),
     val |-> [n \in (DOMAIN row.val) \cup {key} |-> IF n = key THEN x ELSE row.val[n]]]

\* row[key] = x: an existing key keeps its place, a new key goes last.
DictSet(row, key, x) ==
    [keys |-> IF key \in Range(row.keys) THEN row.keys ELSE Append(row.keys, key),
     val |-> [n \in (DOMAIN row.val) \cup {key} |-> IF n = key THEN x ELSE row.val[n]]]

\* One row of csv.DictReader: the cells under the header's names, None for
\* the cells a short row lacks, the surplus of a long row under RESTKEY.
DictReaderRow(names, cells) ==
    LET base == [keys |-> names,
                 val |-> [n \in Range(names) |->
                            LET i == CHOOSE j \in 1..Len(names) : names[j] = n
                            IN  IF i <= Len(cells) THEN cells[i] ELSE NoneV]]
    IN  IF Len(cells) > Len(names)
        THEN DictSet(base, RESTKEY, ListV(Len(cells) - Len(names)))
        ELSE base

-----------------------------------------------------------------------------
(* The body of the loop of main, lines 63-85 *)

\* The argument float() receives on line 63.
CommuteMinsArg(row) == PyOr(DictGet(row, "commute_mins"), IntV(0))

\* The right operands of the `or` of lines 69-73: each sub-score as
\* computed from the raw fields, with the defaults of lines 63-67.
Computed(row) ==
    LET commute_mins == ToFloat(CommuteMinsArg(row))
        flood_zone == PyOr(DictGet(row, "flood_zone"), IntV(3))
        aod == PyOr(DictGet(row, "aod"), FloatV(Q(6, 10)))
        ndvi == PyOr(DictGet(row, "ndvi"), FloatV(QInt(0)))
        density == PyOr(DictGet(row, "density_per_km2"), IntV(40000))
    IN  [commute_score |-> compute_commute_score(commute_mins),
         flood_score |-> compute_flood_score(flood_zone),
         pollution_score |-> compute_pollution_score(aod),
         density_score |-> compute_density_score(density),
         green_score |-> compute_green_score(ndvi)]

\* The arguments float() receives on lines 69-73, by sub-score field.
ScoreArgs(row) ==
    [n \in Range(ScoreFields) |-> PyOr(DictGet(row, n), Computed(row)[n])]

\* The first line of the loop body whose float() raises, 0 when none does.
FailLine(row) ==
    IF ~Floatable(CommuteMinsArg(row)) THEN 63
    ELSE LET bad == {i \in 1..Len(ScoreFields) : ~Floatable(ScoreArgs(row)[ScoreFields[i]])}
         IN  IF bad = {} THEN 0
             ELSE 68 + (CHOOSE i \in bad : \A j \in bad : i <= j)

\* The row after lines 69-83, for a row on which no float() raises.
Enrich(row) ==
    LET args == ScoreArgs(row)
        commute_score == ToFloat(args["commute_score"])
        flood_score == ToFloat(args["flood_score"])
        pollution_score == ToFloat(args["pollution_score"])
        density_score == ToFloat(args["density_score"])
        green_score == ToFloat(args["green_score"])
        maplify_score == compute_maplify_score(commute_score, flood_score,
                                               pollution_score, density_score, green_score)
        r1 == DictSet(row, "commute_score", FloatV(PyRound2(commute_score.v)))
        r2 == DictSet(r1, "flood_score", FloatV(PyRound2(flood_score.v)))
        r3 == DictSet(r2, "pollution_score", FloatV(PyRound2(pollution_score.v)))
        r4 == DictSet(r3, "density_score", FloatV(PyRound2(density_score.v)))
        r5 == DictSet(r4, "green_score", FloatV(PyRound2(green_score.v)))
    IN  DictSet(r5, "maplify_score", maplify_score)

\* The row put in front of the rows scored before it.
PrependRow(rows, row) == <<row>> \o rows

\* Line 85: rows_out.append(row).
AppendRow(rows, row) == Append(rows, row)

-----------------------------------------------------------------------------
(* Output *)

\* json.dump writes the key None as "null" and every value as it is.
JsonKey(key) == IF key = RESTKEY THEN "null" ELSE key

JsonDump(rows) ==
    [i \in 1..Len(rows) |->
        [keys |-> [j \in 1..Len(rows[i].keys) |-> JsonKey(rows[i].keys[j])],
         val |-> [n \in {JsonKey(m) : m \in DOMAIN rows[i].val} |->
                    rows[i].val[CHOOSE m \in DOMAIN rows[i].val : JsonKey(m) = n]]]]

\* Line 92 without the fallback to the input's header.
OutFieldsNoFallback(rows, names) == IF rows # <<>> THEN rows[1].keys ELSE <<>>

\* Line 92: the keys of the first output row, or the input's header.
OutFields(rows, names) == IF rows # <<>> THEN rows[1].keys ELSE names

\* The text csv.writer writes for a value: None as the empty string, a
\* number as its decimal text, a list as its repr, a string as it is.
CsvCell(x) ==
    CASE x.k = "None" -> EmptyV
      [] x.k \in {"float", "int"} -> [k |-> "numtext", v |-> x.v]
      [] x.k = "list" -> TextV(100 + x.v[1])
      [] OTHER -> x

\* The header cell csv.writer writes for a field name.
CsvName(key) == IF key = RESTKEY THEN "" ELSE key

CsvHeader(fields) == [j \in 1..Len(fields) |-> CsvName(fields[j])]

\* DictWriter.writerow: the row's values in column order, "" for a column
\* the row lacks.
CsvLine(fields, row) ==
    [j \in 1..Len(fields) |->
        IF fields[j] \in DOMAIN row.val THEN CsvCell(row.val[fields[j]]) ELSE EmptyV]

\* DictWriter.writerow raises ValueError on a key that is no column.
CsvWritable(fields, row) == DOMAIN row.val \subseteq Range(fields)

-----------------------------------------------------------------------------
(* The input tables the model runs main on *)

SeqsUpTo(S, n) == UNION {[1..m -> S] : m \in 0..n}

\* Cells of a raw column: empty, non-numeric, the best end, the midpoint
\* and the worst end of the nominal domain, and values far outside it.
RawCells(name) ==
    CASE name = "commute_mins" ->
            {EmptyV, TextV(7), NumV(1000), NumV(3500), NumV(6000), NumV(100000), NumV(-500)}
      [] name = "flood_zone" ->
            {EmptyV, TextV(7), NumV(0), NumV(150), NumV(300), NumV(9900), NumV(-200)}
      [] name = "aod" ->
            {EmptyV, TextV(7), NumV(2), NumV(31), NumV(60), NumV(500), NumV(-100)}
      [] name = "density_per_km2" ->
            {EmptyV, TextV(7), NumV(0), NumV(2000000), NumV(4000000), NumV(100000000), NumV(-100)}
      [] name = "ndvi" ->
            {EmptyV, TextV(7), NumV(0), NumV(30), NumV(60), NumV(500), NumV(-100)}

\* Cells of a sub-score column that the input already carries.
OverrideCells == {EmptyV, NumV(0), NumV(6667), NumV(50000), NumV(-500), TextV(7)}

\* Tables with an id column and one raw column.
RawTables ==
    UNION {{[header |-> <<"id", RawFields[i]>>, rows |-> rows] :
                rows \in SeqsUpTo({<<TextV(1), c>> : c \in RawCells(RawFields[i])}, MaxRows)} :
           i \in 1..Len(RawFields)}

\* Tables that carry one sub-score column, placed before its raw column.
OverrideTables ==
    UNION {{[header |-> <<ScoreFields[i], RawFields[i]>>, rows |-> rows] :
                rows \in SeqsUpTo({<<o, c>> : o \in OverrideCells,
                                             c \in {EmptyV, NumV(25)}}, MaxRows)} :
           i \in 1..Len(ScoreFields)}

\* Tables with short rows, long rows and a maplify_score column.
RaggedTables ==
    {[header |-> <<"id", "flood_zone", "maplify_score">>, rows |-> rows] :
        rows \in SeqsUpTo({<<TextV(1), NumV(100), NumV(700)>>,
                           <<TextV(2), NumV(200), EmptyV>>,
                           <<TextV(3)>>,
                           <<TextV(4), NumV(100)>>,
                           <<TextV(5), NumV(200), NumV(700), TextV(9)>>}, MaxRows)}

\* Tables with all five raw columns.
WideTables ==
    {[header |-> <<"commute_mins", "flood_zone", "aod", "ndvi", "density_per_km2">>,
      rows |-> rows] :
        rows \in SeqsUpTo({<<c, f, a, n, d>> :
                              c \in {NumV(1000), NumV(5892)},
                              f \in {NumV(0), NumV(100)},
                              a \in {NumV(2), NumV(20)},
                              n \in {NumV(60), NumV(40)},
                              d \in {NumV(0), NumV(2000000)}}, MaxWideRows)}

\* The empty file: no header line, no rows.
EmptyFile == [header |-> <<>>, rows |-> <<>>]

InFiles == {EmptyFile} \cup RawTables \cup OverrideTables \cup RaggedTables \cup WideTables

-----------------------------------------------------------------------------
(* State *)

VARIABLES
    infile,      \* the input table: its header line and its data lines
    run,         \* 1 for a run on a fresh table, more for a run on the previous output
    pc,          \* where main stands
    error,       \* the exception that ended the run, if one did
    fieldnames,  \* line 60
    rows_out,    \* line 57
    outjson,     \* the JSON output file
    out_fields,  \* line 92
    outcsv       \* the CSV output file

vars == <<infile, run, pc, error, fieldnames, rows_out, outjson, out_fields, outcsv>>

NoError == [type |-> "", line |-> 0]

NoJson == [written |-> FALSE, docs |-> <<>>]

NoCsv == [written |-> FALSE, header |-> <<>>, rows |-> <<>>]

Init ==
    /\ infile \in InFiles
    /\ run = 1
    /\ pc = "start"
    /\ error = NoError
    /\ fieldnames = <<>>
    /\ rows_out = <<>>
    /\ outjson = NoJson
    /\ out_fields = <<>>
    /\ outcsv = NoCsv

\* The dict the loop of line 61 binds to `row` for the i-th data line.
InRow(i) == DictReaderRow(infile.header, infile.rows[i])

-----------------------------------------------------------------------------
(* Steps of main *)

\* Lines 57-60: open the input and read its header.
OpenInput ==
    /\ pc = "start"
    /\ fieldnames' = infile.header
    /\ pc' = "read"
    /\ UNCHANGED <<infile, run, error, rows_out, outjson, out_fields, outcsv>>

\* Lines 61-85 on a row every float() accepts.
ScoreRow ==
    /\ pc = "read"
    /\ Len(rows_out) < Len(infile.rows)
    /\ LET row == DictReaderRow(fieldnames, infile.rows[Len(rows_out) + 1])
       IN  /\ FailLine(row) = 0
           /\ rows_out' = AppendRow(rows_out, Enrich(row))
    /\ UNCHANGED <<infile, run, pc, error, fieldnames, outjson, out_fields, outcsv>>

\* Lines 61-73 on a row on which a float() raises: the exception leaves main.
ScoreRowRaises ==
    /\ pc = "read"
    /\ Len(rows_out) < Len(infile.rows)
    /\ LET row == DictReaderRow(fieldnames, infile.rows[Len(rows_out) + 1])
       IN  /\ FailLine(row) # 0
           /\ error' = [type |-> "ValueError", line |-> FailLine(row)]
    /\ pc' = "failed"
    /\ UNCHANGED <<infile, run, fieldnames, rows_out, outjson, out_fields, outcsv>>

\* Lines 87-89: after the last row, write the JSON file.
WriteJson ==
    /\ pc = "read"
    /\ Len(rows_out) = Len(infile.rows)
    /\ outjson' = [written |-> TRUE, docs |-> JsonDump(rows_out)]
    /\ pc' = "write_csv"
    /\ UNCHANGED <<infile, run, error, fieldnames, rows_out, out_fields, outcsv>>

\* Lines 92-95: choose the columns, open the CSV file, write its header.
WriteCsvHeader ==
    /\ pc = "write_csv"
    /\ out_fields' = OutFields(rows_out, fieldnames)
    /\ outcsv' = [written |-> TRUE, header |-> CsvHeader(out_fields'), rows |-> <<>>]
    /\ pc' = "write_rows"
    /\ UNCHANGED <<infile, run, error, fieldnames, rows_out, outjson>>

\* Lines 96-97 on a row whose keys are all columns.
WriteCsvRow ==
    /\ pc = "write_rows"
    /\ Len(outcsv.rows) < Len(rows_out)
    /\ LET r == rows_out[Len(outcsv.rows) + 1]
       IN  /\ CsvWritable(out_fields, r)
           /\ outcsv' = [outcsv EXCEPT !.rows = Append(@, CsvLine(out_fields, r))]
    /\ UNCHANGED <<infile, run, pc, error, fieldnames, rows_out, outjson, out_fields>>

\* Lines 96-97 on a row with a key that is no column: writerow raises.
WriteCsvRowRaises ==
    /\ pc = "write_rows"
    /\ Len(outcsv.rows) < Len(rows_out)
    /\ ~CsvWritable(out_fields, rows_out[Len(outcsv.rows) + 1])
    /\ error' = [type |-> "ValueError", line |-> 97]
    /\ pc' = "failed"
    /\ UNCHANGED <<infile, run, fieldnames, rows_out, outjson, out_fields, outcsv>>

\* Line 99: every row is written.
Finish ==
    /\ pc = "write_rows"
    /\ Len(outcsv.rows) = Len(rows_out)
    /\ pc' = "done"
    /\ UNCHANGED <<infile, run, error, fieldnames, rows_out, outjson, out_fields, outcsv>>

\* Lines 58, 88, 93: an open() fails.
IOFailure ==
    /\ \/ pc = "start" /\ error' = [type |-> "OSError", line |-> 58]
       \/ pc = "read" /\ Len(rows_out) = Len(infile.rows)
                      /\ error' = [type |-> "OSError", line |-> 88]
       \/ pc = "write_csv" /\ error' = [type |-> "OSError", line |-> 93]
    /\ pc' = "failed"
    /\ UNCHANGED <<infile, run, fieldnames, rows_out, outjson, out_fields, outcsv>>

\* Lines 101-107: the script is run again, with --input naming the CSV file
\* the previous run wrote and fresh output paths.
Rerun ==
    /\ pc = "done"
    /\ run < MaxRuns
    /\ infile' = [header |-> outcsv.header, rows |-> outcsv.rows]
    /\ run' = run + 1
    /\ pc' = "start"
    /\ error' = NoError
    /\ fieldnames' = <<>>
    /\ rows_out' = <<>>
    /\ outjson' = NoJson
    /\ out_fields' = <<>>
    /\ outcsv' = NoCsv

Next ==
    \/ OpenInput
    \/ ScoreRow
    \/ ScoreRowRaises
    \/ WriteJson
    \/ WriteCsvHeader
    \/ WriteCsvRow
    \/ WriteCsvRowRaises
    \/ Finish
    \/ IOFailure
    \/ Rerun

Spec == Init /\ [][Next]_vars

-----------------------------------------------------------------------------
(* Notions the properties share *)

\* The rows scored so far in this run.
Scored == 1..Len(rows_out)

FieldIndices == 1..Len(ScoreFields)

\* The value the i-th input row carries under the j-th sub-score field.
Carried(i, j) == DictGet(InRow(i), ScoreFields[j])

\* The value the i-th input row holds in the j-th raw field.
Raw(i, j) == DictGet(InRow(i), RawFields[j])

\* The j-th sub-score of the i-th output row.
Sub(i, j) == rows_out[i].val[ScoreFields[j]]

\* A float as line 78-82 writes it.
Rounded(x) == FloatV(PyRound2(x.v))

\* The j-th sub-score function applied to a raw value as it stands.
SubScoreOf(j, x) ==
    CASE j = 1 -> compute_commute_score(x)
      [] j = 2 -> compute_flood_score(x)
      [] j = 3 -> compute_pollution_score(x)
      [] j = 4 -> compute_density_score(x)
      [] j = 5 -> compute_green_score(x)

\* The documented default of the j-th raw field.
DocumentedDefault(j) ==
    CASE j = 1 -> NumV(0)
      [] j = 2 -> NumV(300)
      [] j = 3 -> NumV(60)
      [] j = 4 -> NumV(4000000)
      [] j = 5 -> NumV(0)

IsZero(x) == x.v = QInt(0)

IsValue(x, n) == x.v = QInt(n)

-----------------------------------------------------------------------------
(* Properties *)

\* C1: every sub-score field of every enriched record lies in [0,100],
\* whatever the input record holds, values it already carries included.
C1_SubScoresInRange ==
    \A i \in Scored : \A j \in FieldIndices :
        QLe(QInt(0), Sub(i, j).v) /\ QLe(Sub(i, j).v, QInt(100))

\* C2: the maplify_score of every enriched record is an integer in [0,100];
\* it is 100 when all five sub-scores are 100 and 0 when all five are 0.
C2_CompositeInRange ==
    \A i \in Scored :
        LET m == rows_out[i].val["maplify_score"]
        IN  /\ m.k = "int"
            /\ m.v[2] = 1
            /\ m.v[1] \in 0..100
            /\ (\A j \in FieldIndices : IsValue(Sub(i, j), 100)) => IsValue(m, 100)
            /\ (\A j \in FieldIndices : IsZero(Sub(i, j))) => IsZero(m)

\* C3: a missing, empty or non-numeric raw field never raises and never
\* makes main skip the record; the record gets the sub-score the field's
\* documented default would give.
C3_BadRawScoredAsDefault ==
    /\ ~(pc = "failed" /\ error.line \in 63..67)
    /\ pc \in {"write_csv", "write_rows", "done"} => Len(rows_out) = Len(infile.rows)
    /\ \A i \in Scored : \A j \in FieldIndices :
          (Raw(i, j).k \in {"None", "empty", "text"} /\ Carried(i, j).k \in {"None", "empty"})
              => Sub(i, j) = Rounded(SubScoreOf(j, DocumentedDefault(j)))

\* The raw values C4 names, in hundredths, with the score it gives each:
\* <<index of the field, raw value, score>>.
NominalPoints ==
    {<<1, 1000, 100>>, <<1, 6000, 0>>, <<1, 3500, 50>>,
     <<2, 0, 100>>, <<2, 300, 0>>, <<2, 150, 50>>,
     <<3, 2, 100>>, <<3, 60, 0>>,
     <<4, 0, 100>>, <<4, 4000000, 0>>, <<4, 2000000, 50>>,
     <<5, 0, 0>>, <<5, 60, 100>>, <<5, 30, 50>>}

\* C4: each normalisation function gives 100 at the best end of its nominal
\* domain, 0 at the worst end and 50 at the midpoint: a record that holds
\* one of these raw values, and carries no sub-score of its own, is written
\* with exactly that sub-score.
C4_NominalEnds ==
    \A i \in Scored : \A p \in NominalPoints :
        (Raw(i, p[1]) = NumV(p[2]) /\ Carried(i, p[1]).k \in {"None", "empty"})
            => Sub(i, p[1]) = FloatV(QInt(p[3]))

C4_Witness ==
    /\ pc = "done"
    /\ \E i \in Scored :
          /\ Raw(i, 2) = NumV(150)
          /\ Carried(i, 2).k = "None"
          /\ Sub(i, 2) = FloatV(QInt(50))

\* C5 as stated: the carried value is the sub-score exactly when it is
\* present, non-empty and not zero; a carried 0 is recomputed from the raw
\* field.
C5_ZeroIsRecomputed ==
    \A i \in Scored : \A j \in FieldIndices :
        Sub(i, j) = IF Carried(i, j).k \notin {"None", "empty"} /\ ~IsZero(Carried(i, j))
                    THEN Rounded(Carried(i, j))
                    ELSE Rounded(Computed(InRow(i))[ScoreFields[j]])

\* C5 as amended: the carried value is the sub-score exactly when it is
\* present and non-empty, a carried 0 included; otherwise the sub-score is
\* computed from the raw field.
C5_NonEmptyIsUsed ==
    \A i \in Scored : \A j \in FieldIndices :
        Sub(i, j) = IF Carried(i, j).k \notin {"None", "empty"}
                    THEN Rounded(Carried(i, j))
                    ELSE Rounded(Computed(InRow(i))[ScoreFields[j]])

C5_Witness ==
    \E i \in Scored : \E j \in FieldIndices :
        /\ Carried(i, j) = NumV(0)
        /\ ~IsZero(Computed(InRow(i))[ScoreFields[j]])
        /\ IsZero(Sub(i, j))

\* C6: a run on the CSV a first run wrote gives every record the five
\* sub-scores and the maplify_score the first run gave it, unless one of the
\* first run's sub-scores is zero.
C6_RerunIsIdempotent ==
    run > 1 =>
        \A i \in Scored :
            (\A j \in FieldIndices : ~IsZero(Carried(i, j)))
                => \A j \in 1..Len(OutputFields) :
                      CsvCell(rows_out[i].val[OutputFields[j]]) = DictGet(InRow(i), OutputFields[j])

\* C7: a run either scores every record and writes all of them to the JSON
\* and to the CSV output, or fails, and it fails on an I/O failure only.
C7_AllOrIOFailure ==
    /\ pc = "failed" => error.type = "OSError"
    /\ pc = "done" =>
          /\ Len(rows_out) = Len(infile.rows)
          /\ outjson.written /\ Len(outjson.docs) = Len(infile.rows)
          /\ outcsv.written /\ Len(outcsv.rows) = Len(infile.rows)

\* The column of the CSV output named n.
CsvColumn(n) == CHOOSE c \in 1..Len(outcsv.header) : outcsv.header[c] = n

\* C8: a completed run wrote one record per input record, in input order;
\* the i-th record has the fields of the i-th input record and the six score
\* fields, and no others; every field that is not a score field keeps its
\* input value, in the JSON and in the CSV; and records with equal input
\* get equal output.
C8_Frame ==
    pc = "done" =>
        /\ Len(outjson.docs) = Len(infile.rows)
        /\ Len(outcsv.rows) = Len(infile.rows)
        /\ \A i \in 1..Len(infile.rows) :
              LET in == InRow(i)
                  doc == outjson.docs[i]
              IN  /\ Range(doc.keys) = {JsonKey(n) : n \in Range(in.keys) \cup Range(OutputFields)}
                  /\ DOMAIN doc.val = Range(doc.keys)
                  /\ \A n \in DOMAIN in.val \ Range(OutputFields) :
                        doc.val[JsonKey(n)] = in.val[n]
                  /\ \A c \in 1..Len(infile.header) :
                        (infile.header[c] \notin Range(OutputFields) /\ c <= Len(infile.rows[i]))
                            => outcsv.rows[i][CsvColumn(infile.header[c])] = infile.rows[i][c]
                  /\ \A k \in 1..Len(infile.rows) :
                        infile.rows[k] = infile.rows[i]
                            => outjson.docs[k] = doc /\ outcsv.rows[k] = outcsv.rows[i]

C8_Witness ==
    /\ pc = "done"
    /\ Len(infile.rows) >= 2
    /\ infile.rows[1] # infile.rows[2]
    /\ outjson.docs[1] # outjson.docs[2]

NotOutputField(n) == n \notin Range(OutputFields)

NotInHeader(n) == n \notin Range(infile.header)

CsvHasRows == pc \in {"write_rows", "done"} /\ rows_out # <<>>

\* C9 as stated: the CSV columns are the original fields, in their order,
\* followed by the six score fields in computation order, also when the
\* input has score columns (whether these are counted among the original
\* fields or not).
C9_ScoreColumnsLast ==
    CsvHasRows =>
        \/ outcsv.header = infile.header \o OutputFields
        \/ outcsv.header = SelectSeq(infile.header, NotOutputField) \o OutputFields

\* C9 as amended: the CSV columns are the original fields, in their order,
\* a score column of the input keeping its place; then one unnamed column
\* when the first record has more cells than the header; then the score
\* fields the input lacks, in computation order.
C9_ScoreColumnsKeepPlace ==
    CsvHasRows =>
        outcsv.header = infile.header
                        \o (IF Len(infile.rows[1]) > Len(infile.header) THEN <<"">> ELSE <<>>)
                        \o SelectSeq(OutputFields, NotInHeader)

C9_Witness ==
    /\ pc = "done"
    /\ rows_out # <<>>
    /\ \E c \in 1..Len(infile.header) : infile.header[c] \in Range(ScoreFields)
    /\ Len(outcsv.header) = Len(infile.header) + 5

\* C10: on an input without data rows no step raises (a failed open apart),
\* the JSON output is the empty list, and the CSV output is the input's
\* header, in the input's order, and no data row.
C10_EmptyInput ==
    infile.rows = <<>> =>
        /\ pc = "failed" => error.type = "OSError"
        /\ outjson.written => outjson.docs = <<>>
        /\ outcsv.written => outcsv.header = infile.header /\ outcsv.rows = <<>>
        /\ pc = "done" => outjson.written /\ outcsv.written

C10_Witness ==
    /\ pc = "done"
    /\ infile.rows = <<>>
    /\ infile.header # <<>>
    /\ outcsv.header = infile.header

====
